---- MODULE Spec2Model ----
(***************************************************************************)
(* The HTTP service of app/main.py: `app = FastAPI()` and three GET        *)
(* handlers (root, health, test), together with the in-process client of   *)
(* tests/test_main.py.  A request lives on a connection and goes through   *)
(* the steps of the ASGI application: it is received, the router matches   *)
(* it against the route table, the matched endpoint runs, the returned     *)
(* mapping is rendered as JSON and sent, and the client reads the          *)
(* response.  A URL path is the sequence of its segments after the         *)
(* leading slash: "/" is <<"">>, "/health" is <<"health">> and "/health/"  *)
(* is <<"health", "">>.                                                    *)
(***************************************************************************)
EXTENDS Naturals, Sequences, FiniteSets

VARIABLES conn, observed

vars == <<conn, observed>>

\* ------------------------------------------------------------------ bounds

\* Longest request path, in segments.
MaxSegs == 2

\* Connections that can be in flight at once in the concurrent specification.
MaxConn == 2

\* ------------------------------------------------------------------ inputs

Segment == {"", "health", "test", "docs", "oauth2-redirect", "openapi.json", "redoc", "x"}

Path == UNION {[1..k -> Segment] : k \in 1..MaxSegs}

Method == {"GET", "POST", "PUT", "DELETE", "PATCH", "HEAD", "OPTIONS"}

Query == {"", "verbose=1"}

Headers == {{}, {"x-debug"}}

Body == {"", "{\"message\": \"bye\"}"}

AllRequests == [method : Method, path : Path, query : Query, headers : Headers, body : Body]

\* The requests of the concurrent specification: a GET of each of the three
\* routes, of one framework route and of one unknown path, and a POST to
\* /health.
ProbePath == {<<"">>, <<"health">>, <<"test">>, <<"docs">>, <<"x">>}

ProbeRequests ==
  {r \in [method : {"GET", "POST"}, path : ProbePath, query : {""}, headers : {{}}, body : {""}] :
     r.method = "GET" \/ r.path = <<"health">>}

\* The requests of the paired specification: the same paths, with every
\* combination of query string, extra header and request body.
PairRequests == [method : {"GET", "POST"}, path : ProbePath, query : Query, headers : Headers, body : Body]

\* ------------------------------------------------------------- route table

RootPath == <<"">>

HealthPath == <<"health">>

TestPath == <<"test">>

\* The routes FastAPI() registers on construction (openapi_url, docs_url,
\* swagger_ui_oauth2_redirect_url and redoc_url at their defaults; they are
\* added with add_route, which also answers HEAD).
FrameworkRoutes ==
  << [path |-> <<"openapi.json">>, methods |-> {"GET", "HEAD"}, endpoint |-> "openapi"],
     [path |-> <<"docs">>, methods |-> {"GET", "HEAD"}, endpoint |-> "swagger_ui_html"],
     [path |-> <<"docs", "oauth2-redirect">>, methods |-> {"GET", "HEAD"}, endpoint |-> "swagger_ui_redirect"],
     [path |-> <<"redoc">>, methods |-> {"GET", "HEAD"}, endpoint |-> "redoc_html"] >>

\* @app.get(path): one route, GET only, appended in the order of the file.
AppRoutes ==
  << [path |-> RootPath, methods |-> {"GET"}, endpoint |-> "root"],
     [path |-> HealthPath, methods |-> {"GET"}, endpoint |-> "health"],
     [path |-> TestPath, methods |-> {"GET"}, endpoint |-> "test"] >>

Routes == FrameworkRoutes \o AppRoutes

Handlers == {AppRoutes[i].endpoint : i \in DOMAIN AppRoutes}

FrameworkEndpoints == {FrameworkRoutes[i].endpoint : i \in DOMAIN FrameworkRoutes}

HandledPath == {AppRoutes[i].path : i \in DOMAIN AppRoutes}

\* ------------------------------------------------------------------ router

Last(s) == s[Len(s)]

Front(s) == SubSeq(s, 1, Len(s) - 1)

RECURSIVE RStrip(_)
\* path.rstrip("/"): every trailing slash goes.
RStrip(p) == IF p = <<>> THEN <<>> ELSE IF Last(p) = "" THEN RStrip(Front(p)) ELSE p

\* The path the router tries when nothing matched (redirect_slashes).
ToggleSlash(p) == IF Last(p) = "" THEN RStrip(p) ELSE Append(p, "")

\* Mutant: the method is not looked at.
Matches_PathOnly(route, method, path) == IF path = route.path THEN "FULL" ELSE "NONE"

\* Route.matches: the path decides, then the method.
Matches(route, method, path) ==
  IF path = route.path
    THEN (IF method \in route.methods THEN "FULL" ELSE "PARTIAL")
    ELSE "NONE"

Min(S) == CHOOSE x \in S : \A y \in S : x <= y

\* Mutant: trailing slashes are dropped before matching instead of redirected.
RouterApp_LooseSlash(method, path) ==
  LET p == IF RStrip(path) = <<>> THEN RootPath ELSE RStrip(path)
      full == {i \in DOMAIN Routes : Matches(Routes[i], method, p) = "FULL"}
      partial == {i \in DOMAIN Routes : Matches(Routes[i], method, p) = "PARTIAL"}
  IN IF full # {} THEN Routes[Min(full)].endpoint
     ELSE IF partial # {} THEN "method_not_allowed"
     ELSE "not_found"

\* Router.app: the first full match is served; failing that a partial match
\* (right path, wrong method) answers 405; failing that a path that matches
\* with its trailing slash toggled is redirected; the rest is not found.
RouterApp(method, path) ==
  LET full == {i \in DOMAIN Routes : Matches(Routes[i], method, path) = "FULL"}
      partial == {i \in DOMAIN Routes : Matches(Routes[i], method, path) = "PARTIAL"}
  IN IF full # {} THEN Routes[Min(full)].endpoint
     ELSE IF partial # {} THEN "method_not_allowed"
     ELSE IF path # RootPath
             /\ \E i \in DOMAIN Routes : Matches(Routes[i], method, ToggleSlash(path)) # "NONE"
       THEN "redirect"
     ELSE "not_found"

\* --------------------------------------------------------------- responses

\* A Python dict is the sequence of its <<key, value>> items, in insertion
\* order.  JSON text is a sequence of tokens.
Punct(ch) == <<"punct", ch>>

Str(s) == <<"string", s>>

RECURSIVE JsonItems(_)
JsonItems(d) ==
  IF d = <<>> THEN <<>>
  ELSE <<Str(d[1][1]), Punct(":"), Str(d[1][2])>>
       \o (IF Len(d) = 1 THEN <<>> ELSE <<Punct(",")>> \o JsonItems(Tail(d)))

\* JSONResponse.render: json.dumps of the returned mapping.
JsonDumps(d) == <<Punct("{")>> \o JsonItems(d) \o <<Punct("}")>>

\* response.json() of the test client: the items between the braces, each
\* item a key, a colon and a value, items separated by commas.
JsonLoads(text) ==
  [i \in 1..(Len(text) \div 4) |-> <<text[4 * i - 2][2], text[4 * i][2]>>]

JsonMediaType == "application/json"

HtmlMediaType == "text/html; charset=utf-8"

NoResponse == [status |-> 0, ctype |-> "", body |-> <<>>]

\* What the handlers return (the literals of app/main.py).
RootReturn == << <<"message", "Hello World">> >>

HealthReturn == << <<"status", "healthy">> >>

TestReturn == << <<"message", "This is a test endpoint">> >>

\* Mutant: the default response class is a plain-text one.
JSONResponse_Plain(content) == [status |-> 200, ctype |-> "text/plain; charset=utf-8", body |-> JsonDumps(content)]

\* The default response class: status 200, the mapping rendered as JSON.
JSONResponse(content) == [status |-> 200, ctype |-> JsonMediaType, body |-> JsonDumps(content)]

\* The documentation endpoints FastAPI() brings along.
FrameworkResponse(endpoint) ==
  IF endpoint = "openapi"
    THEN [status |-> 200, ctype |-> JsonMediaType, body |-> <<Str("openapi schema")>>]
    ELSE [status |-> 200, ctype |-> HtmlMediaType, body |-> <<Str(endpoint)>>]

\* The framework's answers to what no endpoint serves.
DefaultResponse(endpoint) ==
  IF endpoint = "method_not_allowed"
    THEN [status |-> 405, ctype |-> JsonMediaType,
          body |-> JsonDumps(<< <<"detail", "Method Not Allowed">> >>)]
  ELSE IF endpoint = "redirect"
    THEN [status |-> 307, ctype |-> "", body |-> <<>>]
  ELSE [status |-> 404, ctype |-> JsonMediaType,
        body |-> JsonDumps(<< <<"detail", "Not Found">> >>)]

\* ------------------------------------------------------------------- state

IdleConn ==
  [st |-> "idle", method |-> "", path |-> <<>>, query |-> "", headers |-> {}, body |-> "",
   endpoint |-> "", result |-> <<>>, resp |-> NoResponse]

Init ==
  /\ conn = [c \in {1} |-> IdleConn]
  /\ observed = [p \in HandledPath |-> {}]

InitPair ==
  /\ conn = [c \in {1, 2} |-> IdleConn]
  /\ observed = [p \in HandledPath |-> {}]

InitConc ==
  /\ conn = [c \in 1..MaxConn |-> IdleConn]
  /\ observed = [p \in HandledPath |-> {}]

\* ----------------------------------------------------------------- actions

\* client.get(...) and any other request: the server receives it on an idle
\* connection.
Request(c, R) ==
  /\ conn[c].st = "idle"
  /\ \E r \in R :
       conn' = [conn EXCEPT ![c] = [IdleConn EXCEPT !.st = "received", !.method = r.method,
                                      !.path = r.path, !.query = r.query,
                                      !.headers = r.headers, !.body = r.body]]
  /\ UNCHANGED observed

\* The router picks the endpoint from the method and the path.
Dispatch(c) ==
  /\ conn[c].st = "received"
  /\ conn' = [conn EXCEPT ![c].st = "dispatched",
                          ![c].endpoint = RouterApp(conn[c].method, conn[c].path)]
  /\ UNCHANGED observed

\* Return(c, endpoint, value): the handler bound to `endpoint` runs to its
\* return statement; it takes no argument and touches nothing else.
Return(c, endpoint, value) ==
  /\ conn[c].st = "dispatched"
  /\ conn[c].endpoint = endpoint
  /\ conn' = [conn EXCEPT ![c].st = "returned", ![c].result = value]
  /\ UNCHANGED observed

\* Mutant: the greeting is another one.
root_other(c) == Return(c, "root", << <<"message", "Hello, World!">> >>)

\* Mutant: the handler counts its calls and reports them from the second on.
root_counting(c) ==
  Return(c, "root", IF observed[RootPath] = {} THEN RootReturn ELSE RootReturn \o << <<"hits", "2">> >>)

root(c) == Return(c, "root", RootReturn)

\* Mutant: the handler returns the payload of its neighbour.
health_copied(c) == Return(c, "health", RootReturn)

\* Mutant: the handlers share one module-level result, and health returns
\* what another handler has just put there.
health_shared(c) ==
  LET others == {d \in DOMAIN conn \ {c} : conn[d].st = "returned"}
  IN Return(c, "health", IF others = {} THEN HealthReturn ELSE conn[CHOOSE d \in others : TRUE].result)

health(c) == Return(c, "health", HealthReturn)

\* Mutant: the key of the payload is another one.
test_other(c) == Return(c, "test", << <<"detail", "This is a test endpoint">> >>)

\* Mutant: the handler reads the query string.
test_verbose(c) ==
  Return(c, "test", IF conn[c].query = "" THEN TestReturn ELSE TestReturn \o << <<"query", conn[c].query>> >>)

\* Mutant: the handler raises, and the server answers 500.
test_raises(c) ==
  /\ conn[c].st = "dispatched"
  /\ conn[c].endpoint = "test"
  /\ conn' = [conn EXCEPT ![c].st = "responded",
                          ![c].resp = [status |-> 500, ctype |-> "text/plain; charset=utf-8",
                                       body |-> <<Str("Internal Server Error")>>]]
  /\ UNCHANGED observed

test(c) == Return(c, "test", TestReturn)

\* The framework renders what the handler returned and sends it.
Send(c) ==
  /\ conn[c].st = "returned"
  /\ conn' = [conn EXCEPT ![c].st = "responded", ![c].resp = JSONResponse(conn[c].result)]
  /\ UNCHANGED observed

\* A documentation endpoint of the framework answers.
FrameworkEndpoint(c) ==
  /\ conn[c].st = "dispatched"
  /\ conn[c].endpoint \in FrameworkEndpoints
  /\ conn' = [conn EXCEPT ![c].st = "responded", ![c].resp = FrameworkResponse(conn[c].endpoint)]
  /\ UNCHANGED observed

\* No endpoint serves the request: the framework's default answers.
FrameworkDefault(c) ==
  /\ conn[c].st = "dispatched"
  /\ conn[c].endpoint \in {"method_not_allowed", "redirect", "not_found"}
  /\ conn' = [conn EXCEPT ![c].st = "responded", ![c].resp = DefaultResponse(conn[c].endpoint)]
  /\ UNCHANGED observed

\* The client reads the response; what a GET of a handled path got is kept,
\* as the tests keep `response`.
Deliver(c) ==
  /\ conn[c].st = "responded"
  /\ observed' = IF conn[c].method = "GET" /\ conn[c].path \in HandledPath
                   THEN [observed EXCEPT ![conn[c].path] = @ \cup {conn[c].resp}]
                   ELSE observed
  /\ conn' = [conn EXCEPT ![c] = IdleConn]

Next ==
  \/ \E c \in DOMAIN conn : Request(c, AllRequests)
  \/ \E c \in DOMAIN conn : Dispatch(c)
  \/ \E c \in DOMAIN conn : root(c)
  \/ \E c \in DOMAIN conn : health(c)
  \/ \E c \in DOMAIN conn : test(c)
  \/ \E c \in DOMAIN conn : Send(c)
  \/ \E c \in DOMAIN conn : FrameworkEndpoint(c)
  \/ \E c \in DOMAIN conn : FrameworkDefault(c)
  \/ \E c \in DOMAIN conn : Deliver(c)

NextConc ==
  \/ \E c \in DOMAIN conn : Request(c, ProbeRequests)
  \/ \E c \in DOMAIN conn : Dispatch(c)
  \/ \E c \in DOMAIN conn : root(c)
  \/ \E c \in DOMAIN conn : health(c)
  \/ \E c \in DOMAIN conn : test(c)
  \/ \E c \in DOMAIN conn : Send(c)
  \/ \E c \in DOMAIN conn : FrameworkEndpoint(c)
  \/ \E c \in DOMAIN conn : FrameworkDefault(c)
  \/ \E c \in DOMAIN conn : Deliver(c)

NextPair ==
  \/ \E c \in DOMAIN conn : Request(c, PairRequests)
  \/ \E c \in DOMAIN conn : Dispatch(c)
  \/ \E c \in DOMAIN conn : root(c)
  \/ \E c \in DOMAIN conn : health(c)
  \/ \E c \in DOMAIN conn : test(c)
  \/ \E c \in DOMAIN conn : Send(c)
  \/ \E c \in DOMAIN conn : FrameworkEndpoint(c)
  \/ \E c \in DOMAIN conn : FrameworkDefault(c)
  \/ \E c \in DOMAIN conn : Deliver(c)

\* The server-side steps of one connection.
Serve(c) ==
  \/ Dispatch(c)
  \/ root(c)
  \/ health(c)
  \/ test(c)
  \/ Send(c)
  \/ FrameworkEndpoint(c)
  \/ FrameworkDefault(c)

\* One connection at a time, every request.
Spec == Init /\ [][Next]_vars

\* Several connections in flight, their steps interleaved.
SpecConc == InitConc /\ [][NextConc]_vars

\* Two requests side by side, free to differ in query, headers and body.
SpecPair == InitPair /\ [][NextPair]_vars

\* The event loop runs every coroutine that is ready: each server-side step
\* of each connection is taken once it is enabled.
FairSpec == SpecConc /\ \A c \in 1..MaxConn : WF_vars(Serve(c))

\* ------------------------------------------------------------------ claims

Responded(c) == conn[c].st = "responded"

Get(c, path) == Responded(c) /\ conn[c].method = "GET" /\ conn[c].path = path

\* The whole application as a function of the method and the path.
Answer(method, path) ==
  LET e == RouterApp(method, path)
  IN IF e = "root" THEN JSONResponse(RootReturn)
     ELSE IF e = "health" THEN JSONResponse(HealthReturn)
     ELSE IF e = "test" THEN JSONResponse(TestReturn)
     ELSE IF e \in FrameworkEndpoints THEN FrameworkResponse(e)
     ELSE DefaultResponse(e)

C2_RootHelloWorld ==
  \A c \in DOMAIN conn :
    Get(c, <<"">>) =>
      /\ conn[c].resp.status = 200
      /\ JsonLoads(conn[c].resp.body) = << <<"message", "Hello World">> >>

\* GET / has been answered after the two other routes were answered.
C2_Witness ==
  /\ \E c \in DOMAIN conn : Get(c, <<"">>)
  /\ observed[<<"health">>] # {}
  /\ observed[<<"test">>] # {}

\* C3: GET /health is answered 200 with a JSON body equal to
\* {"status": "healthy"}, whatever was handled before.
C3_HealthHealthy ==
  \A c \in DOMAIN conn :
    Get(c, <<"health">>) =>
      /\ conn[c].resp.status = 200
      /\ JsonLoads(conn[c].resp.body) = << <<"status", "healthy">> >>

\* GET /health has been answered after the two other routes were answered.
C3_Witness ==
  /\ \E c \in DOMAIN conn : Get(c, <<"health">>)
  /\ observed[<<"">>] # {}
  /\ observed[<<"test">>] # {}

\* C4: GET /test is answered 200 with a JSON body equal to
\* {"message": "This is a test endpoint"}, whatever was handled before.
C4_TestEndpoint ==
  \A c \in DOMAIN conn :
    Get(c, <<"test">>) =>
      /\ conn[c].resp.status = 200
      /\ JsonLoads(conn[c].resp.body) = << <<"message", "This is a test endpoint">> >>

\* GET /test has been answered after the two other routes were answered.
C4_Witness ==
  /\ \E c \in DOMAIN conn : Get(c, <<"test">>)
  /\ observed[<<"">>] # {}
  /\ observed[<<"health">>] # {}

\* C5: a request to /, /health or /test with a method other than GET never
\* reaches a handler of the module: the framework's default answers it, and
\* the answer is not the 200 response with the payload of the path.
C5_OtherMethodNotHandled ==
  \A c \in DOMAIN conn :
    (conn[c].st \in {"dispatched", "returned", "responded"}
       /\ conn[c].method \in {"POST", "PUT", "DELETE", "PATCH", "HEAD", "OPTIONS"}
       /\ conn[c].path \in {<<"">>, <<"health">>, <<"test">>})
      => /\ conn[c].endpoint \in {"method_not_allowed", "redirect", "not_found"}
         /\ conn[c].result = <<>>
         /\ Responded(c) => conn[c].resp # Answer("GET", conn[c].path)
         /\ Responded(c) => conn[c].resp.status # 200

\* A HEAD of /health has been answered 405.
C5_Witness ==
  \E c \in DOMAIN conn :
    /\ Responded(c)
    /\ conn[c].method = "HEAD"
    /\ conn[c].path = <<"health">>
    /\ conn[c].resp.status = 405

\* C6: every answer to GET /, GET /health and GET /test is the same as every
\* earlier answer to the same request, whatever was handled in between.
C6_Idempotent ==
  \A p \in {<<"">>, <<"health">>, <<"test">>} :
    /\ Cardinality(observed[p]) <= 1
    /\ \A c \in DOMAIN conn : Get(c, p) => observed[p] \subseteq {conn[c].resp}

\* Each of the three has been answered before, and two of them are being
\* answered again.
C6_Witness ==
  /\ \A p \in HandledPath : observed[p] # {}
  /\ \E c, d \in DOMAIN conn : Get(c, <<"">>) /\ Get(d, <<"health">>)

\* C7: two requests with the same method and path get the same status and
\* the same body, whatever their query strings, headers and bodies.
C7_MethodAndPathDecide ==
  \A c, d \in DOMAIN conn :
    (Responded(c) /\ Responded(d)
       /\ conn[c].method = conn[d].method /\ conn[c].path = conn[d].path)
      => /\ conn[c].resp.status = conn[d].resp.status
         /\ conn[c].resp.body = conn[d].resp.body

\* Two GETs of /test that differ in query string, headers and body have both
\* been answered.
C7_Witness ==
  \E c, d \in DOMAIN conn :
    /\ Get(c, <<"test">>) /\ Get(d, <<"test">>)
    /\ conn[c].query # conn[d].query
    /\ conn[c].headers # conn[d].headers
    /\ conn[c].body # conn[d].body

\* C8: every 200 answer to GET /, GET /health or GET /test has Content-Type
\* application/json.
C8_ContentTypeJson ==
  \A c \in DOMAIN conn :
    (Responded(c) /\ conn[c].method = "GET"
       /\ conn[c].path \in {<<"">>, <<"health">>, <<"test">>}
       /\ conn[c].resp.status = 200)
      => conn[c].resp.ctype = "application/json"

\* GET /health has been answered 200.
C8_Witness == \E c \in DOMAIN conn : Get(c, <<"health">>) /\ conn[c].resp.status = 200

\* C9: with several requests in flight and their steps interleaved, every
\* request is at each step where it would be if it were handled alone: the
\* endpoint is the one its method and path select, the returned mapping is
\* that endpoint's, and the response is the application's answer to it.
C9_Isolated ==
  \A c \in DOMAIN conn :
    /\ conn[c].st \in {"dispatched", "returned", "responded"}
         => conn[c].endpoint = RouterApp(conn[c].method, conn[c].path)
    /\ conn[c].st = "returned"
         => JSONResponse(conn[c].result) = Answer(conn[c].method, conn[c].path)
    /\ Responded(c) => conn[c].resp = Answer(conn[c].method, conn[c].path)

\* GET /health has been answered while the handler of a GET / on another
\* connection had returned and its response was not yet sent.
C9_Witness ==
  \E c, d \in DOMAIN conn :
    /\ Get(c, <<"health">>)
    /\ conn[d].st = "returned"
    /\ conn[d].endpoint = "root"

\* C10: a request dispatched to root, health or test gets its response, and
\* the response is the handler's 200, not an error.
C10_HandlersTotal ==
  \A c \in 1..MaxConn :
    (conn[c].st = "dispatched" /\ conn[c].endpoint \in {"root", "health", "test"})
      ~> (Responded(c) /\ conn[c].resp.status = 200)

\* A request dispatched to test has been answered while another connection
\* was in flight.
C10_Witness ==
  \E c, d \in DOMAIN conn :
    /\ Responded(c)
    /\ conn[c].endpoint = "test"
    /\ conn[c].resp.status = 200
    /\ conn[d].st \in {"received", "dispatched", "returned"}

====
